---- MODULE Spec2Model ----
(***************************************************************************)
(* dfrus PE model (peclasses.py): Section records, SectionTable bisection  *)
(* and address translation, RelocationTable build / encode / decode, the   *)
(* PortableExecutable caches, and MachineCode reference resolution.        *)
(*                                                                         *)
(* Platform: the code packs with native 'L' and 'H'.  The model takes the  *)
(* program's target (Windows x86: 'L' is 4 bytes, 'H' is 2 bytes, little   *)
(* endian), the only platform on which the declared layouts match a PE     *)
(* file.  TLC integers are 32-bit signed, so every modelled 32-bit value   *)
(* is drawn below 2^31; Python integers never overflow.                    *)
(***************************************************************************)
EXTENDS Integers, Sequences, FiniteSets, TLC

VARIABLES
    \* ---- SectionTable (lookup) ----
    sections,      \* the SectionTable: a sequence of [rva, physical_offset]
    constructed,   \* TRUE once SectionTable.__init__ returned
    op,            \* the last call made on the table
    arg,           \* its argument
    result,        \* its return value
    \* ---- RelocationTable ----
    rphase,        \* position in the build/decode -> to_file -> from_file pipeline
    relocs,        \* the addresses given to build
    blocks,        \* the raw blocks an external stream was laid out from
    stream,        \* bytes of an external relocation stream
    table,         \* RelocationTable._table: sequence of <<page, records>> (dict order)
    out,           \* bytes written by to_file
    res,           \* outcome of the last from_file: [err, table]
    \* ---- Section record ----
    sphase,
    raw,           \* the raw bytes Section.read consumed
    items,         \* Section.items
    packed,        \* bytes(section)
    \* ---- PortableExecutable ----
    file,          \* the backing file's content
    pe,            \* the PortableExecutable object's attributes
    lastOp,        \* the last operation performed
    prevOp,        \* the one before
    raised,        \* whether the last operation raised
    ret,           \* value returned by the last property access
    \* ---- MachineCode ----
    mphase,
    code,          \* the buffer: literal runs and references
    origin_address,
    fields,        \* symbol values
    resolved       \* bytes(code)

secVars == <<sections, constructed, op, arg, result>>
relVars == <<rphase, relocs, blocks, stream, table, out, res>>
strVars == <<sphase, raw, items, packed>>
peVars  == <<file, pe, lastOp, prevOp, raised, ret>>
mcVars  == <<mphase, code, origin_address, fields, resolved>>
vars    == <<secVars, relVars, strVars, peVars, mcVars>>

(***************************************************************************)
(* Integer and byte helpers                                                *)
(***************************************************************************)
Pow2(n) == 2 ^ n

RECURSIVE BitOr(_, _)
\* Python's a | b on non-negative integers
BitOr(a, b) ==
    IF a = 0 THEN b
    ELSE IF b = 0 THEN a
    ELSE (IF a % 2 = 1 \/ b % 2 = 1 THEN 1 ELSE 0) + 2 * BitOr(a \div 2, b \div 2)

RECURSIVE BitAnd(_, _)
\* Python's a & b on non-negative integers
BitAnd(a, b) ==
    IF a = 0 \/ b = 0 THEN 0
    ELSE (IF a % 2 = 1 /\ b % 2 = 1 THEN 1 ELSE 0) + 2 * BitAnd(a \div 2, b \div 2)

\* Python's x >> n
ShiftRight(x, n) == x \div Pow2(n)

\* v as n little-endian bytes (two's complement for negative v)
ToBytesLE(v, n) == [i \in 1..n |-> (v \div (256 ^ (i - 1))) % 256]

RECURSIVE FromBytesLE(_)
\* int.from_bytes(bs, 'little'); the empty byte string is 0
FromBytesLE(bs) ==
    IF bs = <<>> THEN 0 ELSE Head(bs) + 256 * FromBytesLE(Tail(bs))

\* file.read(n) at position pos (0-based): at most n bytes, fewer at end of file
ReadBytes(f, pos, n) ==
    SubSeq(f, pos + 1, IF pos + n <= Len(f) THEN pos + n ELSE Len(f))

RECURSIVE Concat(_)
Concat(ss) == IF ss = <<>> THEN <<>> ELSE Head(ss) \o Concat(Tail(ss))

Range(s) == {s[i] : i \in DOMAIN s}

(***************************************************************************)
(* SectionTable                                                            *)
(***************************************************************************)
MaxSections == 2

RvaVals == {4096, 4097, 8192}
OffsetVals == {0, 1024, 1025, 2048}
SectionRecs == [rva : RvaVals, physical_offset : OffsetVals]
Queries == {v + d : v \in RvaVals \cup OffsetVals, d \in {-1, 0, 1}}

\* Key.__getitem__ over the whole list: the sequence bisect sees
OffsetKey(t) == [i \in DOMAIN t |-> t[i].physical_offset]
RvaKey(t) == [i \in DOMAIN t |-> t[i].rva]

RECURSIVE BisectLoop(_, _, _, _)
BisectLoop(a, x, lo, hi) ==
    IF lo < hi
    THEN LET mid == (lo + hi) \div 2
         IN  IF x < a[mid + 1]
             THEN BisectLoop(a, x, lo, mid)
             ELSE BisectLoop(a, x, mid + 1, hi)
    ELSE lo

RECURSIVE BisectLeftLoop(_, _, _, _)
BisectLeftLoop(a, x, lo, hi) ==
    IF lo < hi
    THEN LET mid == (lo + hi) \div 2
         IN  IF a[mid + 1] < x
             THEN BisectLeftLoop(a, x, mid + 1, hi)
             ELSE BisectLeftLoop(a, x, lo, mid)
    ELSE lo

\* bisect_left in place of bisect (bisect_right)
bisect_left(a, x) == BisectLeftLoop(a, x, 0, Len(a))

\* bisect.bisect(a, x): the insertion point to the right of equal keys
bisect(a, x) == BisectLoop(a, x, 0, Len(a))

\* list indexing with Python's negative-index wrap-around
PyIndex(t, i) == IF i < 0 THEN t[Len(t) + i + 1] ELSE t[i + 1]

\* the two asserts of SectionTable.__init__
StrictlyIncreasing(t) ==
    /\ \A i \in 1..(Len(t) - 1) : t[i].rva < t[i + 1].rva
    /\ \A i \in 1..(Len(t) - 1) : t[i].physical_offset < t[i + 1].physical_offset

Section_offset_to_rva(s, offset) == offset - s.physical_offset + s.rva
Section_rva_to_offset(s, rva) == rva - s.rva + s.physical_offset

offset_to_rva(t, offset) ==
    LET i == bisect(OffsetKey(t), offset) - 1
    IN  Section_offset_to_rva(PyIndex(t, i), offset)

rva_to_offset(t, rva) ==
    LET i == bisect(RvaKey(t), rva) - 1
    IN  Section_rva_to_offset(PyIndex(t, i), rva)

which_section_offset(t, offset) == bisect(OffsetKey(t), offset) - 1
which_section_rva(t, rva) == bisect(RvaKey(t), rva) - 1

SecInit ==
    /\ sections = <<>>
    /\ constructed = FALSE
    /\ op = "none"
    /\ arg = 0
    /\ result = 0

\* SectionTable(sections): the asserts reject an unsorted list
SectionTableNew ==
    \E n \in 1..MaxSections : \E secs \in [1..n -> SectionRecs] :
        /\ ~constructed
        /\ sections' = IF StrictlyIncreasing(secs) THEN secs ELSE sections
        /\ constructed' = StrictlyIncreasing(secs)
        /\ op' = IF StrictlyIncreasing(secs) THEN "new" ELSE "AssertionError"
        /\ UNCHANGED <<arg, result>>

WhichSectionOffset ==
    \E o \in Queries :
        /\ constructed
        /\ op' = "which_section_offset"
        /\ arg' = o
        /\ result' = which_section_offset(sections, o)
        /\ UNCHANGED <<sections, constructed>>

WhichSectionRva ==
    \E r \in Queries :
        /\ constructed
        /\ op' = "which_section_rva"
        /\ arg' = r
        /\ result' = which_section_rva(sections, r)
        /\ UNCHANGED <<sections, constructed>>

OffsetToRva ==
    \E o \in Queries :
        /\ constructed
        /\ op' = "offset_to_rva"
        /\ arg' = o
        /\ result' = offset_to_rva(sections, o)
        /\ UNCHANGED <<sections, constructed>>

RvaToOffset ==
    \E r \in Queries :
        /\ constructed
        /\ op' = "rva_to_offset"
        /\ arg' = r
        /\ result' = rva_to_offset(sections, r)
        /\ UNCHANGED <<sections, constructed>>

(***************************************************************************)
(* RelocationTable                                                         *)
(***************************************************************************)
IMAGE_REL_BASED_ABSOLUTE == 0
IMAGE_REL_BASED_HIGHLOW == 3

MaxRelocs == 3
MaxBlocks == 2

\* addresses handed to build: two pages and a high page, offsets 0, 4, 0xFFF
Addrs == {4096, 4100, 8191, 8192, 2147479564}

\* item & 0xFFFFF000 for a 32-bit item (the mask itself exceeds TLC's integers)
PageOf(item) == item - BitAnd(item, 4095)

\* ---- the dict behind _table: insertion-ordered <<key, value>> pairs ----
DictHas(t, k) == \E i \in DOMAIN t : t[i][1] = k
DictGet(t, k) == t[CHOOSE i \in DOMAIN t : t[i][1] = k][2]
DictSet(t, k, v) ==
    IF DictHas(t, k)
    THEN [i \in DOMAIN t |-> IF t[i][1] = k THEN <<k, v>> ELSE t[i]]
    ELSE Append(t, <<k, v>>)

RECURSIVE DictFromPairs(_, _)
\* dict(iterable of pairs): a repeated key keeps its place and takes the later value
DictFromPairs(pairs, t) ==
    IF pairs = <<>> THEN t
    ELSE DictFromPairs(Tail(pairs), DictSet(t, Head(pairs)[1], Head(pairs)[2]))

\* list.append in place of bisect.insort
insort_append(a, x) == Append(a, x)

\* bisect.insort(a, x): insert x after the entries <= x
insort(a, x) ==
    LET lo == BisectLoop(a, x, 0, Len(a))
    IN  SubSeq(a, 1, lo) \o <<x>> \o SubSeq(a, lo + 1, Len(a))

RECURSIVE BuildLoop(_, _)
BuildLoop(rs, reloc_table) ==
    IF rs = <<>> THEN reloc_table
    ELSE LET item == Head(rs)
             page == PageOf(item)
             offset == BitAnd(item, 4095)
             t1 == IF ~DictHas(reloc_table, page)
                   THEN DictSet(reloc_table, page, <<>>)
                   ELSE reloc_table
         IN  BuildLoop(Tail(rs), DictSet(t1, page, insort(DictGet(t1, page), offset)))

build(rs) == BuildLoop(rs, <<>>)

\* RelocationTable.__iter__
Iterate(t) ==
    Concat([i \in DOMAIN t |->
               [j \in DOMAIN t[i][2] |-> BitOr(t[i][1], BitAnd(t[i][2][j], 4095))]])

\* disasm.align(n, edge): n rounded up to a multiple of edge
align(n, edge) == ((n + edge - 1) \div edge) * edge

RECURSIVE SumAligned(_)
SumAligned(t) ==
    IF t = <<>> THEN 0 ELSE align(Len(Head(t)[2]), 2) + SumAligned(Tail(t))

\* RelocationTable.size
size(t) == Len(t) * 8 + SumAligned(t) * 2

RECURSIVE SortedSeq(_)
\* sorted(S) for a finite set of integers
SortedSeq(S) ==
    IF S = {} THEN <<>>
    ELSE LET m == CHOOSE x \in S : \A y \in S : x <= y
         IN  <<m>> \o SortedSeq(S \ {m})

\* a page's records with an odd count, written without the padding record
PadRecordsNone(records) == records

\* the padding record appended to an odd number of records
PadRecords(records) ==
    IF Len(records) % 2 = 1
    THEN Append(records, BitOr(IMAGE_REL_BASED_ABSOLUTE * 4096, 0))
    ELSE records

\* one page's block as to_file writes it
BlockBytes(page, recs) ==
    LET records == PadRecords([i \in DOMAIN recs |->
                                  BitOr(recs[i], IMAGE_REL_BASED_HIGHLOW * 4096)])
        block_size == 8 + 2 * Len(records)
    IN  ToBytesLE(page, 4) \o ToBytesLE(block_size, 4)
        \o Concat([i \in DOMAIN records |-> ToBytesLE(records[i], 2)])

\* RelocationTable.to_file: the bytes appended to the file
to_file(t) ==
    LET pages == SortedSeq({t[i][1] : i \in DOMAIN t})
    IN  Concat([i \in DOMAIN pages |-> BlockBytes(pages[i], DictGet(t, pages[i]))])

\* the filter of iter_read keeping every entry, whatever its type
KeepAll(words) == words

\* the entries iter_read keeps: type HIGHLOW only
KeepHighLow(words) ==
    SelectSeq(words, LAMBDA x : ShiftRight(x, 12) = IMAGE_REL_BASED_HIGHLOW)

\* the assert written with >= in place of >
BlockSizeAcceptedGE(block_size) == block_size >= 8

\* the first assert of iter_read
BlockSizeAccepted(block_size) == block_size > 8

RECURSIVE IterRead(_, _, _, _, _)
\* the generator of iter_read run to its end: the pairs yielded, or the exception
IterRead(f, pos, cur_off, reloc_size, acc) ==
    IF ~(cur_off < reloc_size) THEN [err |-> "none", pairs |-> acc]
    ELSE
    LET b1 == ReadBytes(f, pos, 4)
        b2 == ReadBytes(f, pos + Len(b1), 4)
        cur_page == FromBytesLE(b1)
        block_size == FromBytesLE(b2)
        n == (block_size - 8) \div 2
        p3 == pos + Len(b1) + Len(b2)
        data == ReadBytes(f, p3, 2 * n)
        words == [k \in 1..n |-> FromBytesLE(SubSeq(data, 2 * k - 1, 2 * k))]
    IN  IF ~BlockSizeAccepted(block_size) THEN [err |-> "AssertionError", pairs |-> <<>>]
        ELSE IF (block_size - 8) % 2 # 0 THEN [err |-> "AssertionError", pairs |-> <<>>]
        ELSE IF n < 0 THEN [err |-> "ValueError", pairs |-> <<>>]
        ELSE IF Len(data) % 2 # 0 THEN [err |-> "ValueError", pairs |-> <<>>]
        ELSE IF Len(data) < 2 * n THEN [err |-> "EOFError", pairs |-> <<>>]
        ELSE IterRead(f, p3 + 2 * n, cur_off + block_size, reloc_size,
                      Append(acc, <<cur_page, KeepHighLow(words)>>))

iter_read(f, reloc_size) == IterRead(f, 0, 0, reloc_size, <<>>)

\* RelocationTable.from_file: a table, or the exception and no table
from_file(f, reloc_size) ==
    LET r == iter_read(f, reloc_size)
    IN  IF r.err = "none"
        THEN [err |-> "none", table |-> DictFromPairs(r.pairs, <<>>)]
        ELSE [err |-> r.err, table |-> <<>>]

\* ---- relocation streams found in a file ----
StreamPages == {4096, 8192}
\* entry words: ABSOLUTE padding (0), HIGHLOW 0x3004 and 0x3001, DIR64 0xA008
GoodEntries ==
    {<<0>>, <<0, 0>>, <<12292>>, <<12292, 12289>>, <<12289, 12292>>,
     <<12292, 0>>, <<40968, 12292>>, <<12289, 12292, 12292>>}
RawBlocks ==
    {[page |-> p, block_size |-> 8 + 2 * Len(e), entries |-> e] :
        p \in StreamPages, e \in GoodEntries}
    \cup {[page |-> p, block_size |-> b, entries |-> <<>>] :
        p \in StreamPages, b \in {0, 8, 9}}
    \cup {[page |-> p, block_size |-> 11, entries |-> <<12292>>] : p \in StreamPages}

\* the bytes of a stream holding the given blocks
Layout(bs) ==
    Concat([i \in DOMAIN bs |->
               ToBytesLE(bs[i].page, 4) \o ToBytesLE(bs[i].block_size, 4)
               \o Concat([j \in DOMAIN bs[i].entries |-> ToBytesLE(bs[i].entries[j], 2)])])

Malformed(b) == b.block_size <= 8 \/ (b.block_size - 8) % 2 # 0

FromBuild == blocks = <<>>

RelInit ==
    /\ rphase = "start"
    /\ relocs = <<>>
    /\ blocks = <<>>
    /\ stream = <<>>
    /\ table = <<>>
    /\ out = <<>>
    /\ res = [err |-> "none", table |-> <<>>]

\* RelocationTable.build(relocs)
Build ==
    \E n \in 0..MaxRelocs : \E rs \in [1..n -> Addrs] :
        /\ rphase = "start"
        /\ relocs' = rs
        /\ table' = build(rs)
        /\ rphase' = "built"
        /\ UNCHANGED <<blocks, stream, out, res>>

\* a file holding a relocation stream is opened
LoadStream ==
    \E n \in 1..MaxBlocks : \E bs \in [1..n -> RawBlocks] :
        /\ rphase = "start"
        /\ blocks' = bs
        /\ stream' = Layout(bs)
        /\ rphase' = "loaded"
        /\ UNCHANGED <<relocs, table, out, res>>

\* RelocationTable.from_file(file, reloc_size) on the stream
FromFileStream ==
    /\ rphase = "loaded"
    /\ res' = from_file(stream, Len(stream))
    /\ table' = IF res'.err = "none" THEN res'.table ELSE table
    /\ rphase' = IF res'.err = "none" THEN "decoded" ELSE "failed"
    /\ UNCHANGED <<relocs, blocks, stream, out>>

\* table.to_file(file) into an empty file
ToFile ==
    /\ rphase \in {"built", "decoded"}
    /\ out' = to_file(table)
    /\ rphase' = "written"
    /\ UNCHANGED <<relocs, blocks, stream, table, res>>

\* RelocationTable.from_file(file, table.size) on what to_file wrote
FromFileOut ==
    /\ rphase = "written"
    /\ res' = from_file(out, size(table))
    /\ rphase' = "reread"
    /\ UNCHANGED <<relocs, blocks, stream, table, out>>

(***************************************************************************)
(* Section record: _struct = '8s4L12xL'                                    *)
(***************************************************************************)
\* struct sizes of the format characters
NameSize == 8
LongSize == 4
PadSize == 12
\* Section.sizeof = _struct.size
Section_sizeof == NameSize + 4 * LongSize + PadSize + LongSize

Zeros(n) == [i \in 1..n |-> 0]

\* raw records found in a file
NameBytes == {<<46, 116, 101, 120, 116, 0, 0, 0>>, [i \in 1..8 |-> 255]}
WordBytes == {<<0, 0, 0, 0>>, <<120, 86, 52, 18>>}
FlagBytes == {<<32, 0, 0, 96>>, <<255, 255, 255, 127>>}
ReservedBytes == {Zeros(12), <<1>> \o Zeros(11), Zeros(8) \o <<7, 0, 0, 0>>, [i \in 1..12 |-> 255]}
RawRecords ==
    {n \o vs \o rv \o ps \o po \o rsv \o fl :
        n \in NameBytes, vs \in WordBytes, rv \in WordBytes, ps \in WordBytes,
        po \in WordBytes, rsv \in ReservedBytes, fl \in FlagBytes}
\* a file holding a whole record, or ending 8 bytes early
RecordFiles == RawRecords \cup {SubSeq(r, 1, 32) : r \in RawRecords}

\* _struct.unpack(raw): the six fields; the 12 pad bytes are skipped
Section_unpack(r) ==
    [name            |-> SubSeq(r, 1, 8),
     virtual_size    |-> FromBytesLE(SubSeq(r, 9, 12)),
     rva             |-> FromBytesLE(SubSeq(r, 13, 16)),
     physical_size   |-> FromBytesLE(SubSeq(r, 17, 20)),
     physical_offset |-> FromBytesLE(SubSeq(r, 21, 24)),
     flags           |-> FromBytesLE(SubSeq(r, 37, 40))]

\* pack with rva and virtual_size written in each other's place
Section_pack_swapped(it) ==
    it.name \o ToBytesLE(it.rva, 4) \o ToBytesLE(it.virtual_size, 4)
    \o ToBytesLE(it.physical_size, 4) \o ToBytesLE(it.physical_offset, 4)
    \o Zeros(PadSize) \o ToBytesLE(it.flags, 4)

\* _struct.pack(*self): the six fields in order; pad bytes are written as zero
Section_pack(it) ==
    it.name \o ToBytesLE(it.virtual_size, 4) \o ToBytesLE(it.rva, 4)
    \o ToBytesLE(it.physical_size, 4) \o ToBytesLE(it.physical_offset, 4)
    \o Zeros(PadSize) \o ToBytesLE(it.flags, 4)

NoItems ==
    [name |-> <<>>, virtual_size |-> 0, rva |-> 0, physical_size |-> 0,
     physical_offset |-> 0, flags |-> 0]

StrInit ==
    /\ sphase = "start"
    /\ raw = <<>>
    /\ items = NoItems
    /\ packed = <<>>

\* Section.read(file): reads sizeof bytes; unpack raises struct.error on a short read
SectionRead ==
    \E f \in RecordFiles :
        /\ sphase = "start"
        /\ raw' = ReadBytes(f, 0, Section_sizeof)
        /\ items' = IF Len(raw') = Section_sizeof THEN Section_unpack(raw') ELSE items
        /\ sphase' = IF Len(raw') = Section_sizeof THEN "read" ELSE "error"
        /\ UNCHANGED packed

\* bytes(section)
SectionBytes ==
    /\ sphase = "read"
    /\ packed' = Section_pack(items)
    /\ sphase' = "encoded"
    /\ UNCHANGED <<raw, items>>

(***************************************************************************)
(* PortableExecutable: header parse, the two memoized tables, reread       *)
(***************************************************************************)
\* File content is kept per region as a content id; 0 stands for content the
\* parser of that region rejects (bad signature, optional header size other
\* than 224, malformed relocation block).
Gens == {1, 2}
FileStates == [dos : {0} \cup Gens, nt : {0} \cup Gens, sect : Gens, reloc : {0} \cup Gens]

None == [set |-> FALSE, v |-> 0]
Some(x) == [set |-> TRUE, v |-> x]

\* PortableExecutable.__init__(file) on an object with attributes self:
\* the attributes are assigned in order, up to the first exception
PE_init(self, f) ==
    IF f.dos = 0 THEN [obj |-> self, raised |-> TRUE]
    ELSE IF f.nt = 0 THEN [obj |-> [self EXCEPT !.dos_header = f.dos], raised |-> TRUE]
    ELSE [obj |-> [dos_header |-> f.dos, nt_headers |-> f.nt,
                   cache_section_table |-> None, cache_relocation_table |-> None],
          raised |-> FALSE]

\* the section_table property: the object afterwards
PE_section_table(self, f) ==
    IF ~self.cache_section_table.set
    THEN [self EXCEPT !.cache_section_table = Some(f.sect)]
    ELSE self

\* the relocation_table property: reads section_table first, then from_file
PE_relocation_table(self, f) ==
    IF ~self.cache_relocation_table.set
    THEN LET s1 == PE_section_table(self, f)
         IN  IF f.reloc = 0
             THEN [obj |-> s1, raised |-> TRUE]
             ELSE [obj |-> [s1 EXCEPT !.cache_relocation_table = Some(f.reloc)],
                   raised |-> FALSE]
    ELSE [obj |-> self, raised |-> FALSE]

PeInit ==
    /\ file = [dos |-> 1, nt |-> 1, sect |-> 1, reloc |-> 1]
    /\ pe = [dos_header |-> 1, nt_headers |-> 1,
             cache_section_table |-> None, cache_relocation_table |-> None]
    /\ lastOp = "init"
    /\ prevOp = "init"
    /\ raised = FALSE
    /\ ret = 0

\* pe.section_table
SectionTableGet ==
    /\ pe' = PE_section_table(pe, file)
    /\ ret' = pe'.cache_section_table.v
    /\ raised' = FALSE
    /\ lastOp' = "section_table"
    /\ prevOp' = lastOp
    /\ UNCHANGED file

\* pe.relocation_table
RelocationTableGet ==
    LET r == PE_relocation_table(pe, file)
    IN  /\ pe' = r.obj
        /\ raised' = r.raised
        /\ ret' = IF r.raised THEN 0 ELSE r.obj.cache_relocation_table.v
        /\ lastOp' = "relocation_table"
        /\ prevOp' = lastOp
        /\ UNCHANGED file

\* an external in-place write to the file
ExternalWrite ==
    \E f \in FileStates :
        /\ f # file
        /\ Cardinality({k \in DOMAIN f : f[k] # file[k]}) = 1
        /\ file' = f
        /\ lastOp' = "write"
        /\ prevOp' = lastOp
        /\ raised' = FALSE
        /\ UNCHANGED <<pe, ret>>

\* pe.reread(): self.__init__(self.file)
Reread ==
    LET r == PE_init(pe, file)
    IN  /\ pe' = r.obj
        /\ raised' = r.raised
        /\ lastOp' = "reread"
        /\ prevOp' = lastOp
        /\ UNCHANGED <<file, ret>>

(***************************************************************************)
(* MachineCode / Reference (machine_code.py is outside src/: modelled from *)
(* the specification, section 4.4, and the sample of test_machinecode_1)   *)
(***************************************************************************)
Lit(bs) == [kind |-> "bytes", bytes |-> bs, name |-> "", size |-> Len(bs)]
Reference_relative(nm, sz) == [kind |-> "relative", bytes |-> <<>>, name |-> nm, size |-> sz]
Reference_absolute(nm, sz) == [kind |-> "absolute", bytes |-> <<>>, name |-> nm, size |-> sz]

to_dword(x) == ToBytesLE(x, 4)

\* mov dword [esi+14h], 0fh; call near func; mov edi, 0fh; jmp near return_addr
SampleCode ==
    <<Lit(<<199>>), Lit(<<70>>), Lit(<<20>>), Lit(to_dword(15)),
      Lit(<<232>>), Reference_relative("func", 4),
      Lit(<<191>>), Lit(to_dword(15)),
      Lit(<<233>>), Reference_relative("return_addr", 4)>>

Buffers ==
    {SampleCode,
     <<Lit(<<235>>), Reference_relative("func", 1), Lit(<<144>>)>>,
     <<Lit(<<102, 233>>), Reference_relative("return_addr", 2),
       Lit(<<104>>), Reference_absolute("func", 4)>>,
     <<Reference_relative("func", 4), Lit(<<144, 144>>), Reference_relative("func", 4)>>}
Origins == {1193046, 0, 4194304, 2236950}
FuncVals == {2236962, 0, 4194304, 1193046}
ReturnVals == {7829367, 16, 1193050}

\* the displacement taken from the site instead of the end of the field
RelativeValueFromSite(target, origin, k, sz) == target - (origin + k)

\* value of a relative reference at offset k: target - (site + width)
RelativeValue(target, origin, k, sz) == target - (origin + k + sz)

RECURSIVE ResolveLoop(_, _, _, _)
\* one linear pass: literal runs copied, references written little-endian
ResolveLoop(cd, origin, flds, k) ==
    IF cd = <<>> THEN <<>>
    ELSE LET it == Head(cd)
             bs == IF it.kind = "bytes" THEN it.bytes
                   ELSE IF it.kind = "relative"
                        THEN ToBytesLE(RelativeValue(flds[it.name], origin, k, it.size), it.size)
                        ELSE ToBytesLE(flds[it.name], it.size)
         IN  bs \o ResolveLoop(Tail(cd), origin, flds, k + Len(bs))

\* bytes(code)
MachineCode_bytes(cd, origin, flds) == ResolveLoop(cd, origin, flds, 0)

McInit ==
    /\ mphase = "start"
    /\ code = <<>>
    /\ origin_address = 0
    /\ fields = [n \in {"func", "return_addr"} |-> 0]
    /\ resolved = <<>>

\* MachineCode(...); code.origin_address = ...; code.fields[...] = ...
Assemble ==
    \E b \in Buffers, o \in Origins, fv \in FuncVals, rv \in ReturnVals :
        /\ mphase = "start"
        /\ code' = b
        /\ origin_address' = o
        /\ fields' = [n \in {"func", "return_addr"} |-> IF n = "func" THEN fv ELSE rv]
        /\ mphase' = "assembled"
        /\ UNCHANGED resolved

\* bytes(code)
Resolve ==
    /\ mphase = "assembled"
    /\ resolved' = MachineCode_bytes(code, origin_address, fields)
    /\ mphase' = "resolved"
    /\ UNCHANGED <<code, origin_address, fields>>

(***************************************************************************)
(* Specifications: one per component; the other components stay idle       *)
(***************************************************************************)
Init == SecInit /\ RelInit /\ StrInit /\ PeInit /\ McInit

NextSection ==
    \/ SectionTableNew /\ UNCHANGED <<relVars, strVars, peVars, mcVars>>
    \/ WhichSectionOffset /\ UNCHANGED <<relVars, strVars, peVars, mcVars>>
    \/ WhichSectionRva /\ UNCHANGED <<relVars, strVars, peVars, mcVars>>
    \/ OffsetToRva /\ UNCHANGED <<relVars, strVars, peVars, mcVars>>
    \/ RvaToOffset /\ UNCHANGED <<relVars, strVars, peVars, mcVars>>

NextReloc ==
    \/ Build /\ UNCHANGED <<secVars, strVars, peVars, mcVars>>
    \/ LoadStream /\ UNCHANGED <<secVars, strVars, peVars, mcVars>>
    \/ FromFileStream /\ UNCHANGED <<secVars, strVars, peVars, mcVars>>
    \/ ToFile /\ UNCHANGED <<secVars, strVars, peVars, mcVars>>
    \/ FromFileOut /\ UNCHANGED <<secVars, strVars, peVars, mcVars>>

NextStruct ==
    \/ SectionRead /\ UNCHANGED <<secVars, relVars, peVars, mcVars>>
    \/ SectionBytes /\ UNCHANGED <<secVars, relVars, peVars, mcVars>>

NextPE ==
    \/ SectionTableGet /\ UNCHANGED <<secVars, relVars, strVars, mcVars>>
    \/ RelocationTableGet /\ UNCHANGED <<secVars, relVars, strVars, mcVars>>
    \/ ExternalWrite /\ UNCHANGED <<secVars, relVars, strVars, mcVars>>
    \/ Reread /\ UNCHANGED <<secVars, relVars, strVars, mcVars>>

NextMC ==
    \/ Assemble /\ UNCHANGED <<secVars, relVars, strVars, peVars>>
    \/ Resolve /\ UNCHANGED <<secVars, relVars, strVars, peVars>>

SpecSection == Init /\ [][NextSection]_vars
SpecReloc == Init /\ [][NextReloc]_vars
SpecStruct == Init /\ [][NextStruct]_vars
SpecPE == Init /\ [][NextPE]_vars
SpecMC == Init /\ [][NextMC]_vars

Next == NextSection \/ NextReloc \/ NextStruct \/ NextPE \/ NextMC
Spec == Init /\ [][Next]_vars

(***************************************************************************)
(* Properties                                                              *)
(***************************************************************************)
NoDup(s) == \A i, j \in DOMAIN s : i # j => s[i] # s[j]
Sorted(s) == SortSeq(s, LAMBDA a, b : a < b)

\* 0-based index of the rightmost key <= x, -1 when x precedes every key
RightmostLE(keys, x) ==
    LET S == {i \in DOMAIN keys : keys[i] <= x}
    IN  IF S = {} THEN -1 ELSE (CHOOSE i \in S : \A j \in S : j <= i) - 1

\* C1: relocation round trip. For a duplicate-free list of addresses, build,
\* to_file and from_file (reloc_size = the table's size) give a table whose
\* iteration holds exactly the given addresses, each once.
C1_RelocRoundTrip ==
    (rphase = "reread" /\ FromBuild /\ NoDup(relocs)) =>
        /\ res.err = "none"
        /\ Range(Iterate(res.table)) = Range(relocs)
        /\ Len(Iterate(res.table)) = Len(relocs)

\* C1 witness: a round trip done for three addresses, one with intra-page
\* offset 0, leaving a page with an odd number of entries.
C1_Witness ==
    /\ rphase = "reread" /\ FromBuild /\ NoDup(relocs)
    /\ Len(relocs) = 3
    /\ \E i \in DOMAIN relocs : relocs[i] % 4096 = 0
    /\ \E i \in DOMAIN table : Len(table[i][2]) % 2 = 1
    /\ res.err = "none"

\* C2 (as stated): re-encoding a decoded, unmutated record gives back the raw
\* bytes it was read from, reserved bytes included.
C2_RoundTripIdentity ==
    sphase = "encoded" => packed = raw

\* C2 (amended): a record is 40 bytes; re-encoding gives the raw bytes with the
\* 12 reserved bytes (offsets 24..35) written as zero, so the output equals the
\* input exactly when they were zero; a 32-byte input is rejected.
C2_RoundTripZeroesReserved ==
    /\ sphase = "encoded" =>
           /\ Len(raw) = 40
           /\ packed = [i \in 1..40 |-> IF i \in 25..36 THEN 0 ELSE raw[i]]
           /\ (packed = raw) <=> (SubSeq(raw, 25, 36) = Zeros(12))
    /\ sphase = "error" => Len(raw) < 40
    /\ sphase = "read" => Len(raw) = 40

\* C2 witness: a record with non-zero reserved bytes was decoded and re-encoded.
C2_Witness ==
    /\ sphase = "encoded"
    /\ SubSeq(raw, 25, 36) # Zeros(12)
    /\ items.rva = 305419896
    /\ packed # raw

\* C3 (as stated): which_section returns the index of the rightmost section
\* whose key <= the argument, -1 before the first; and at S0.physical_offset-1,
\* S0.physical_offset, S0.physical_offset+1 it returns -1, 0, 0.
C3_WhichSectionAsStated ==
    /\ op = "which_section_offset" =>
           /\ result = RightmostLE(OffsetKey(sections), arg)
           /\ arg = sections[1].physical_offset - 1 => result = -1
           /\ arg = sections[1].physical_offset => result = 0
           /\ arg = sections[1].physical_offset + 1 => result = 0
    /\ op = "which_section_rva" =>
           /\ result = RightmostLE(RvaKey(sections), arg)
           /\ arg = sections[1].rva - 1 => result = -1
           /\ arg = sections[1].rva => result = 0
           /\ arg = sections[1].rva + 1 => result = 0

\* C3 (amended): as stated, except that at S0.physical_offset+1 (S0.rva+1) the
\* result is 0 only when no second section starts there; when S1 starts at
\* exactly that address the rightmost rule gives 1.
C3_WhichSectionRightmost ==
    /\ op = "which_section_offset" =>
           /\ result = RightmostLE(OffsetKey(sections), arg)
           /\ arg = sections[1].physical_offset - 1 => result = -1
           /\ arg = sections[1].physical_offset => result = 0
           /\ arg = sections[1].physical_offset + 1 =>
                  result = IF Len(sections) > 1 /\ sections[2].physical_offset = arg
                           THEN 1 ELSE 0
    /\ op = "which_section_rva" =>
           /\ result = RightmostLE(RvaKey(sections), arg)
           /\ arg = sections[1].rva - 1 => result = -1
           /\ arg = sections[1].rva => result = 0
           /\ arg = sections[1].rva + 1 =>
                  result = IF Len(sections) > 1 /\ sections[2].rva = arg THEN 1 ELSE 0

\* C3 witness: a lookup just before the first of two sections returned -1.
C3_Witness ==
    /\ op = "which_section_offset"
    /\ Len(sections) = 2
    /\ arg = sections[1].physical_offset - 1
    /\ result = -1

\* C4: a stream holding a block with block_size <= 8 or (block_size - 8) odd
\* ends the decode in the assertion error (the code's format error); no table
\* is returned, none from the blocks read so far either.
C4_MalformedBlockFails ==
    (rphase \in {"decoded", "failed"} /\ \E i \in DOMAIN blocks : Malformed(blocks[i])) =>
        /\ rphase = "failed"
        /\ res.err = "AssertionError"
        /\ res.table = <<>>
        /\ table = <<>>

\* C4 witness: a well-formed block followed by a block of size 8 was decoded
\* and failed.
C4_Witness ==
    /\ rphase = "failed"
    /\ Len(blocks) = 2
    /\ ~Malformed(blocks[1])
    /\ blocks[2].block_size = 8
    /\ res.err = "AssertionError"

\* the bytes of a field read back as a signed little-endian integer
SignedLE(bs) ==
    LET n == Len(bs)
        top == bs[n]
    IN  FromBytesLE(SubSeq(bs, 1, n - 1))
        + (256 ^ (n - 1)) * (IF top >= 128 THEN top - 256 ELSE top)

RECURSIVE SiteOffset(_, _)
\* offset in the resolved buffer of item i
SiteOffset(cd, i) == IF i = 1 THEN 0 ELSE SiteOffset(cd, i - 1) + cd[i - 1].size

SampleBytes ==
    <<199, 70, 20, 15, 0, 0, 0, 232, 192, 237, 15, 0,
      191, 15, 0, 0, 0, 233, 11, 67, 101, 0>>

\* C5: every relative reference at offset k holds symbol - (origin + k + size)
\* modulo 2^(8*size), little-endian; every literal run is copied in place; the
\* sample (origin 0x123456, func 0x222222, return_addr 0x777777) gives
\* C7 46 14 0F 00 00 00 E8 C0 ED 0F 00 BF 0F 00 00 00 E9 0B 43 65 00.
C5_RelativeResolution ==
    mphase = "resolved" =>
        /\ \A i \in DOMAIN code :
              LET k == SiteOffset(code, i)
                  bs == SubSeq(resolved, k + 1, k + code[i].size)
                  d == fields[code[i].name] - (origin_address + k + code[i].size)
              IN  /\ Len(bs) = code[i].size
                  /\ code[i].kind = "bytes" => bs = code[i].bytes
                  /\ code[i].kind = "relative" =>
                         IF code[i].size = 4 THEN SignedLE(bs) = d
                         ELSE (SignedLE(bs) - d) % (256 ^ code[i].size) = 0
        /\ (/\ code = SampleCode
            /\ origin_address = 1193046
            /\ fields["func"] = 2236962
            /\ fields["return_addr"] = 7829367) => resolved = SampleBytes

\* C5 witness: the sample buffer was resolved with the sample's origin and symbols.
C5_Witness ==
    /\ mphase = "resolved"
    /\ code = SampleCode
    /\ origin_address = 1193046
    /\ fields["func"] = 2236962
    /\ fields["return_addr"] = 7829367
    /\ resolved = SampleBytes

\* C6: right after a reread() call neither cache holds a table (both were
\* reset together, whatever the headers now hold), and a table access that
\* directly follows a reread() returns the table the file holds at that moment.
C6_RereadDiscardsCaches ==
    /\ lastOp = "reread" =>
           ~pe.cache_section_table.set /\ ~pe.cache_relocation_table.set
    /\ (lastOp = "section_table" /\ prevOp = "reread") => ret = file.sect
    /\ (lastOp = "relocation_table" /\ prevOp = "reread" /\ ~raised) => ret = file.reloc

RECURSIVE SumEvenCeil(_)
\* sum over pages of the entry count rounded up to an even number
SumEvenCeil(t) ==
    IF t = <<>> THEN 0
    ELSE Len(Head(t)[2]) + (Len(Head(t)[2]) % 2) + SumEvenCeil(Tail(t))

\* C7: size = 8 * page_count + 2 * sum of the even-rounded entry counts, and
\* to_file writes exactly that many bytes, for built and for decoded tables.
C7_SizeIsEncodedLength ==
    rphase = "written" =>
        /\ size(table) = 8 * Len(table) + 2 * SumEvenCeil(table)
        /\ Len(out) = size(table)

\* C7 witness: a table with two pages, one holding an odd number of entries,
\* was written.
C7_Witness ==
    /\ rphase = "written"
    /\ Len(table) = 2
    /\ \E i \in DOMAIN table : Len(table[i][2]) % 2 = 1
    /\ Len(out) = 28

\* C8 (as stated): iterating a built table yields the ascending sort of the
\* addresses given to build.
C8_IterationAscending ==
    rphase = "built" => Iterate(table) = Sorted(relocs)

FirstIndex(rs, page) ==
    CHOOSE i \in DOMAIN rs :
        PageOf(rs[i]) = page /\ \A j \in 1..(i - 1) : PageOf(rs[j]) # page

\* C8 (amended): iteration yields the given addresses (each as often as given),
\* ascending within a page, the pages in the order of their first appearance
\* in the input (the dict's order), not in ascending page order.
C8_IterationGroupedByPage ==
    rphase = "built" =>
        LET it == Iterate(table)
        IN  /\ Sorted(it) = Sorted(relocs)
            /\ \A i, j \in DOMAIN it :
                  i < j =>
                      IF PageOf(it[i]) = PageOf(it[j])
                      THEN it[i] <= it[j]
                      ELSE FirstIndex(relocs, PageOf(it[i])) < FirstIndex(relocs, PageOf(it[j]))

\* C8 witness: a table built from a higher page first, then two addresses of
\* a lower page in descending order.
C8_Witness ==
    /\ rphase = "built"
    /\ relocs = <<8192, 4100, 4096>>
    /\ Iterate(table) = <<8192, 4096, 4100>>

\* C9: offset_to_rva / rva_to_offset translate against the rightmost section
\* starting at or before the address, and an address before the first section
\* is not translated against the last section.
C9_NoSectionBeforeFirst ==
    /\ op = "offset_to_rva" =>
           LET i == RightmostLE(OffsetKey(sections), arg)
           IN  IF i >= 0
               THEN result = arg - sections[i + 1].physical_offset + sections[i + 1].rva
               ELSE result # arg - sections[Len(sections)].physical_offset
                                 + sections[Len(sections)].rva
    /\ op = "rva_to_offset" =>
           LET i == RightmostLE(RvaKey(sections), arg)
           IN  IF i >= 0
               THEN result = arg - sections[i + 1].rva + sections[i + 1].physical_offset
               ELSE result # arg - sections[Len(sections)].rva
                                 + sections[Len(sections)].physical_offset

\* C10: a table decoded from an accepted stream, written with to_file, is
\* accepted again by from_file (reloc_size = size) and iterates the same set
\* of addresses.
C10_ReencodeDecodable ==
    (rphase = "reread" /\ ~FromBuild) =>
        /\ res.err = "none"
        /\ Range(Iterate(res.table)) = Range(Iterate(table))

====
